---- MODULE Spec2Model ----
(***************************************************************************)
(* Model of tf (src/main.rs): a command-line tool that, given a file name  *)
(* with an extension, writes a boilerplate source file.                    *)
(*                                                                         *)
(* Strings the program inspects character by character (the input name,    *)
(* its segments, the output path, the guard tokens) are sequences of       *)
(* one-character strings, so that split, replace, to_uppercase and format! *)
(* are computed as the code computes them.  Text that is only copied       *)
(* (template literals, messages, the author) is a TLA+ string.             *)
(***************************************************************************)
EXTENDS Integers, Sequences, FiniteSets, TLC

VARIABLES
    args,       \* struct Args after Args::parse(): [name, supported_filetypes]
    env,        \* the process environment at run time: value of LOGNAME
    pc,         \* position in main / create_file
    filename,   \* main's `filename`: Vec<&str> of the split input
    filetype,   \* main's `filetype`
    info,       \* create_file's `info`
    fs,         \* the file system: path -> [content, mode]
    fs0,        \* the file system when the run started
    ops,        \* file-system calls made so far, in order
    out,        \* lines printed to standard output
    err,        \* lines printed to standard error
    exit        \* the exit status, once the process has ended

vars == <<args, env, pc, filename, filetype, info, fs, fs0, ops, out, err, exit>>

-----------------------------------------------------------------------------
(* Bounds and input pools *)

\* largest number of '.'-separated segments in an input name
MaxSegs == 3

\* Option<T>: None is the empty sequence, Some(x) the one-element sequence
None    == <<>>
Some(x) == <<x>>
IsSome(o) == Len(o) = 1
Unwrap(o) == o[1]

NoKind  == "NoKind"     \* no arm of the match names the segment
Unset   == "Unset"      \* environment variable not defined

s_empty == <<>>
s_a     == <<"a">>
s_b     == <<"b">>
s_c     == <<"c">>
s_h     == <<"h">>
s_py    == <<"p", "y">>
s_cpp   == <<"c", "p", "p">>
s_hpp   == <<"h", "p", "p">>
s_bash  == <<"b", "a", "s", "h">>
s_sv    == <<"s", "v">>
s_svh   == <<"s", "v", "h">>
s_C     == <<"C">>
s_PY    == <<"P", "Y">>
s_xyz   == <<"x", "y", "z">>

\* segments tried before the last one, and as the last one
EarlierSegs == {s_empty, s_a, s_b, s_c, s_bash}
LastSegs    == {s_empty, s_a, s_c, s_h, s_py, s_cpp, s_hpp, s_bash, s_sv, s_svh,
                s_C, s_PY, s_xyz}

RECURSIVE Join(_)
Join(segs) ==
    IF Len(segs) = 1 THEN segs[1]
    ELSE segs[1] \o <<".">> \o Join(Tail(segs))

SegLists ==
    UNION { { e \o <<l>> : e \in [1..(n - 1) -> EarlierSegs], l \in LastSegs }
            : n \in 1..MaxSegs }

\* the names given on the command line
Names == { Join(segs) : segs \in SegLists }

\* what LOGNAME can be when the program runs
RunLognames == {Unset, "alice"}

\* files that may be on disk before the run
OldContent == <<"old">>
OldFiles ==
    { <<>>,
      [p \in {Join(<<s_a, s_c>>)} |-> [content |-> OldContent, mode |-> 600]],
      [p \in {Join(<<s_a, s_bash>>)} |-> [content |-> OldContent, mode |-> 600]],
      [p \in {Join(<<s_a, s_c, s_h>>)} |-> [content |-> OldContent, mode |-> 744]] }

-----------------------------------------------------------------------------
(* Library functions, as the code uses them *)

\* str::split("."): the segments between the dots; never an empty list
RECURSIVE Split(_)
Split(s) ==
    IF s = <<>> THEN << <<>> >>
    ELSE LET rest == Split(Tail(s)) IN
         IF Head(s) = "." THEN << <<>> >> \o rest
         ELSE << <<Head(s)>> \o Head(rest) >> \o Tail(rest)

\* str::replace(".", "_")
Replace(s) == [i \in 1..Len(s) |-> IF s[i] = "." THEN "_" ELSE s[i]]

UpperChar(ch) ==
    CASE ch = "a" -> "A" [] ch = "b" -> "B" [] ch = "c" -> "C"
      [] ch = "h" -> "H" [] ch = "p" -> "P" [] ch = "s" -> "S"
      [] ch = "v" -> "V" [] ch = "x" -> "X" [] ch = "y" -> "Y"
      [] ch = "z" -> "Z" [] OTHER -> ch

\* str::to_uppercase()
ToUppercase(s) == [i \in 1..Len(s) |-> UpperChar(s[i])]

\* Vec::last() and Vec::first()
Last(v)  == IF Len(v) = 0 THEN None ELSE Some(v[Len(v)])
First(v) == IF Len(v) = 0 THEN None ELSE Some(v[1])

\* env!("LOGNAME", ..): expanded by the compiler to the value LOGNAME had
\* when the program was built
BuildLogname == "builder"

\* Utc::now().format("%m/%d/%Y")
Today == "11/04/2026"

\* the mode fs::write gives a file it creates
CreateMode == 644

\* perms.set_mode(0o744)
ExecMode == 744

-----------------------------------------------------------------------------
(* enum FileTypes and the extension create_file pairs with each kind *)

FileTypes == {"C", "H", "Python", "CPP", "HPP", "Bash",
              "SystemVerilogModule", "SystemVerilogPackage"}

\* KindOf with the arms of sv and svh exchanged
KindOf_swapped(seg) ==
    CASE seg = s_c    -> "C"
      [] seg = s_h    -> "H"
      [] seg = s_py   -> "Python"
      [] seg = s_cpp  -> "CPP"
      [] seg = s_hpp  -> "HPP"
      [] seg = s_bash -> "Bash"
      [] seg = s_sv   -> "SystemVerilogPackage"
      [] seg = s_svh  -> "SystemVerilogModule"
      [] OTHER        -> NoKind

\* KindOf matching the segment without regard to case
KindOf_caseless(seg) ==
    CASE ToUppercase(seg) = ToUppercase(s_c)    -> "C"
      [] ToUppercase(seg) = ToUppercase(s_h)    -> "H"
      [] ToUppercase(seg) = ToUppercase(s_py)   -> "Python"
      [] ToUppercase(seg) = ToUppercase(s_cpp)  -> "CPP"
      [] ToUppercase(seg) = ToUppercase(s_hpp)  -> "HPP"
      [] ToUppercase(seg) = ToUppercase(s_bash) -> "Bash"
      [] ToUppercase(seg) = ToUppercase(s_sv)   -> "SystemVerilogModule"
      [] ToUppercase(seg) = ToUppercase(s_svh)  -> "SystemVerilogPackage"
      [] OTHER        -> NoKind

\* the match in main: the kind of a last segment, or NoKind when no arm names it
KindOf(seg) ==
    CASE seg = s_c    -> "C"
      [] seg = s_h    -> "H"
      [] seg = s_py   -> "Python"
      [] seg = s_cpp  -> "CPP"
      [] seg = s_hpp  -> "HPP"
      [] seg = s_bash -> "Bash"
      [] seg = s_sv   -> "SystemVerilogModule"
      [] seg = s_svh  -> "SystemVerilogPackage"
      [] OTHER        -> NoKind

\* the extension each arm of create_file puts in format!("{filename}.<ext>")
ExtOf(kind) ==
    CASE kind = "C"      -> s_c
      [] kind = "H"      -> s_h
      [] kind = "Python" -> s_py
      [] kind = "CPP"    -> s_cpp
      [] kind = "HPP"    -> s_hpp
      [] kind = "Bash"   -> s_bash
      [] kind = "SystemVerilogModule"  -> s_sv
      [] kind = "SystemVerilogPackage" -> s_svh

\* format!("{filename}.<ext>")
FormatPath(name, kind) == name \o <<".">> \o ExtOf(kind)

\* SetsPermissions with the permission step in the Python arm as well
SetsPermissions_python(kind) == kind \in {"Bash", "Python"}

\* only the Bash arm of create_file goes on to metadata and set_permissions
SetsPermissions(kind) == kind = "Bash"

-----------------------------------------------------------------------------
(* The templates.  A rendered text is the sequence of its lines (the text  *)
(* split at newlines, so a text ending in a newline ends in an empty       *)
(* line); a line is the sequence of its literal and substituted parts.     *)

Rule == "////////////////////////////////////////////////////////////////////////"
HashRule == "########################################################################"

\* the grave accent (U+0060) of the SystemVerilog directives, which a TLA+
\* string cannot hold
Grave == "U+0060"

SlashBanner(i) ==
    << <<Rule>>,
       <<"// Author  : ", i.author>>,
       <<"// File    : ", i.file>>,
       <<"// Date    : ", i.date>>,
       <<"// Purpose : TODO">>,
       <<Rule>> >>

create_c_file(i) ==
    SlashBanner(i) \o
    << <<"">>,
       <<"#include <stdio.h>">>,
       <<"">>,
       <<"int main(int argc, char *argv[]) {">>,
       <<"  printf(\"Hello, World!\\n\");">>,
       <<"  return 0;">>,
       <<"}">>,
       <<"">>,
       <<"">> >>

\* HGuard without the to_uppercase()
HGuard_nocase(i) == Replace(i.file)

\* let guard = info.file.replace(".", "_").to_uppercase();
HGuard(i) == ToUppercase(Replace(i.file))

create_h_file(i) ==
    SlashBanner(i) \o
    << <<"">>,
       <<"#ifndef ", HGuard(i)>>,
       <<"#define ", HGuard(i)>>,
       <<"">>,
       <<"// STRUCTS">>,
       <<"">>,
       <<"// FUNCTIONS">>,
       <<"">>,
       <<Rule>>,
       <<"#endif">>,
       <<"">> >>

create_py_file(i) ==
    << <<"\"\"\"">>,
       <<"Author  : ", i.author>>,
       <<"File    : ", i.file>>,
       <<"Date    : ", i.date>>,
       <<"Purpose : TODO">>,
       <<"\"\"\"">>,
       <<"">>,
       <<"">>,
       <<"def main() -> int:">>,
       <<"    return 0">>,
       <<"">>,
       <<"">>,
       <<"if __name__ == \"__main__\":">>,
       <<"    main()">> >>

create_cpp_file(i) ==
    SlashBanner(i) \o
    << <<"">>,
       <<"#include <iostream>">>,
       <<"">>,
       <<"int main(int argc, char *argv[]) {">>,
       <<"  std::cout << \"Hello, World!\" << std::endl;">>,
       <<"  return 0;">>,
       <<"}">>,
       <<"">>,
       <<"">> >>

create_hpp_file(i) ==
    SlashBanner(i) \o
    << <<"">>,
       <<"#pragma once">>,
       <<"">>,
       <<"// STRUCTS">>,
       <<"">>,
       <<"// FUNCTIONS">>,
       <<"">>,
       <<Rule>>,
       <<"">> >>

create_bash_file(i) ==
    << <<"#!/bin/bash">>,
       <<HashRule>>,
       <<"# Author  : ", i.author>>,
       <<"# File    : ", i.file>>,
       <<"# Date    : ", i.date>>,
       <<"# Purpose : TODO">>,
       <<HashRule>>,
       <<"set -e # exit immediately on error">>,
       <<"set -u # treat unbound variables as errors">>,
       <<"set -x # enable tracing">>,
       <<"">>,
       <<"echo \"Hello, World!\"">>,
       <<"">> >>

create_sv_file(i) ==
    LET module_name == Split(i.file) IN
    SlashBanner(i) \o
    << <<"">>,
       <<Grave, "default_nettype none">>,
       <<"">>,
       <<"module ", module_name[1], " (">>,
       <<"  input logic clk,">>,
       <<"  input logic rst">>,
       <<"  );">>,
       <<"">>,
       <<"  // TODO - Implementation">>,
       <<"">>,
       <<"endmodule">>,
       <<"">>,
       <<Grave, "default_nettype wire">>,
       <<"">>,
       <<"">> >>

create_svh_file(i) ==
    LET package_name == Split(i.file)
        package_name_no_file_ext == package_name[1]
        header_guard == ToUppercase(package_name_no_file_ext)
    IN
    SlashBanner(i) \o
    << <<"">>,
       <<Grave, "ifndef ", header_guard>>,
       <<Grave, "define ", header_guard>>,
       <<"">>,
       <<"package ", package_name_no_file_ext, ";">>,
       <<"">>,
       <<"  // TODO - Implementation">>,
       <<"">>,
       <<"endpackage: ", package_name_no_file_ext>>,
       <<"">>,
       <<Grave, "endif">>,
       <<"">>,
       <<"">> >>

\* the renderer each arm of create_file calls
Render(kind, i) ==
    CASE kind = "C"      -> create_c_file(i)
      [] kind = "H"      -> create_h_file(i)
      [] kind = "Python" -> create_py_file(i)
      [] kind = "CPP"    -> create_cpp_file(i)
      [] kind = "HPP"    -> create_hpp_file(i)
      [] kind = "Bash"   -> create_bash_file(i)
      [] kind = "SystemVerilogModule"  -> create_sv_file(i)
      [] kind = "SystemVerilogPackage" -> create_svh_file(i)

-----------------------------------------------------------------------------
(* Exit statuses *)

ExitSuccess == 0      \* process::exit(0), or main returning Ok(())
ExitFailure == 1      \* process::exit(1)
ExitPanic   == 101    \* the status of a Rust process that panicked

-----------------------------------------------------------------------------
(* The file system *)

Exists(f, path) == path \in DOMAIN f

\* fs::write(path, text) succeeding: the file is created with the default
\* mode, or an existing file is truncated and keeps its mode
Written(f, path, text) ==
    [p \in DOMAIN f \cup {path} |->
        IF p = path
        THEN [content |-> text,
              mode |-> IF Exists(f, path) THEN f[path].mode ELSE CreateMode]
        ELSE f[p]]

\* fs::set_permissions(path, perms) succeeding
Chmod(f, path, mode) ==
    [p \in DOMAIN f |-> IF p = path THEN [f[p] EXCEPT !.mode = mode] ELSE f[p]]

\* what a failed fs::write can leave behind: nothing changed, or the file
\* created or truncated with nothing in it
WriteFailures(f, path) == {f, Written(f, path, <<>>)}

-----------------------------------------------------------------------------
(* Messages *)

ErrorTag == "ERROR"

SupportedFiletypesText ==
    << <<"Software Filetypes:">>,
       <<"  ", "C", "      : '", ".c", "'">>,
       <<"  ", "H", "      : '", ".h", "'">>,
       <<"  ", "Python", " : '", ".py", "'">>,
       <<"  ", "CPP", "    : '", ".cpp", "'">>,
       <<"  ", "HPP", "    : '", ".hpp", "'">>,
       <<"  ", "Bash", "   : '", ".bash", "'">>,
       <<"">>,
       <<"HDL Filetypes:">>,
       <<"  ", "SystemVerilog (module)", "  : '", ".sv", "'">>,
       <<"  ", "SystemVerilog (package)", " : '", ".svh", "'">> >>

MissingArgumentMsg ==
    <<ErrorTag, ": Program requires argument. See help with 'tf --help'">>

MissingFilenameMsg  == "Input filename is expected."
MissingExtensionMsg == "Filename with file extension is expected."
Ok == "Ok"

InputErrMsg(msg) == <<ErrorTag, " with input: ", msg>>

UnsupportedMsg(seg) ==
    <<ErrorTag, ": Filetype '.", seg,
      "' is not supported. Run 'tf --list-filetypes' for available filetypes.">>

IoError == "io error"
CreateErrMsg(e) == <<ErrorTag, " creating file: ", e>>

\* check_input_errs with its two checks in the other order
check_input_errs_lenfirst(input) ==
    IF Len(input) <= 1 THEN MissingExtensionMsg
    ELSE IF input = << <<>> >> THEN MissingFilenameMsg
    ELSE Ok

\* fn check_input_errs(input: &Vec<&str>) -> Result<(), String>
check_input_errs(input) ==
    IF input = << <<>> >> THEN MissingFilenameMsg
    ELSE IF Len(input) <= 1 THEN MissingExtensionMsg
    ELSE Ok

-----------------------------------------------------------------------------
(* The run *)

Init ==
    /\ args \in [name : {None} \cup {Some(n) : n \in Names},
                 supported_filetypes : BOOLEAN]
    /\ env \in [LOGNAME : RunLognames]
    /\ fs0 \in OldFiles
    /\ fs = fs0
    /\ pc = "main"
    /\ filename = None
    /\ filetype = NoKind
    /\ info = None
    /\ ops = <<>>
    /\ out = <<>>
    /\ err = <<>>
    /\ exit = None

\* show_supported_filetypes without its process::exit(0): main goes on
show_supported_filetypes_noexit ==
    /\ pc = "main"
    /\ IF args.supported_filetypes
       THEN out' = out \o SupportedFiletypesText
       ELSE UNCHANGED out
    /\ pc' = "unwrap"
    /\ UNCHANGED <<args, env, filename, filetype, info, fs, fs0, ops, err, exit>>

\* if args.supported_filetypes { show_supported_filetypes() }
\* show_supported_filetypes prints the list and ends in process::exit(0)
show_supported_filetypes ==
    /\ pc = "main"
    /\ IF args.supported_filetypes
       THEN /\ out' = out \o SupportedFiletypesText
            /\ exit' = Some(ExitSuccess)
            /\ pc' = "exited"
       ELSE /\ pc' = "unwrap"
            /\ UNCHANGED <<out, exit>>
    /\ UNCHANGED <<args, env, filename, filetype, info, fs, fs0, ops, err>>

\* args.name.unwrap_or_else(|| { eprintln!(..); process::exit(1) })
main_missing_name ==
    /\ pc = "unwrap"
    /\ ~IsSome(args.name)
    /\ err' = Append(err, MissingArgumentMsg)
    /\ exit' = Some(ExitFailure)
    /\ pc' = "exited"
    /\ UNCHANGED <<args, env, filename, filetype, info, fs, fs0, ops, out>>

\* let filename: Vec<&str> = input_filename.split(".").collect();
main_split ==
    /\ pc = "unwrap"
    /\ IsSome(args.name)
    /\ filename' = Some(Split(Unwrap(args.name)))
    /\ pc' = "check_input_errs"
    /\ UNCHANGED <<args, env, filetype, info, fs, fs0, ops, out, err, exit>>

\* if let Err(msg) = check_input_errs(&filename) { eprintln!(..); process::exit(1) }
main_check_input ==
    /\ pc = "check_input_errs"
    /\ LET msg == check_input_errs(Unwrap(filename)) IN
       IF msg = Ok
       THEN /\ pc' = "match"
            /\ UNCHANGED <<err, exit>>
       ELSE /\ err' = Append(err, InputErrMsg(msg))
            /\ exit' = Some(ExitFailure)
            /\ pc' = "exited"
    /\ UNCHANGED <<args, env, filename, filetype, info, fs, fs0, ops, out>>

\* let filetype: FileTypes = match filename.last() { .. };
main_match ==
    /\ pc = "match"
    /\ LET last == Last(Unwrap(filename)) IN
       IF ~IsSome(last)
       THEN \* None => panic!(..)
            /\ exit' = Some(ExitPanic)
            /\ pc' = "exited"
            /\ UNCHANGED <<filetype, err>>
       ELSE IF KindOf(Unwrap(last)) # NoKind
       THEN /\ filetype' = KindOf(Unwrap(last))
            /\ pc' = "create_file"
            /\ UNCHANGED <<err, exit>>
       ELSE \* Some(&unsupported_filetype) => { eprintln!(..); process::exit(1) }
            /\ err' = Append(err, UnsupportedMsg(Unwrap(last)))
            /\ exit' = Some(ExitFailure)
            /\ pc' = "exited"
            /\ UNCHANGED filetype
    /\ UNCHANGED <<args, env, filename, info, fs, fs0, ops, out>>

\* create_file(filename.first().unwrap(), filetype), up to and including the
\* arm's fs::write(&info.file, create_<kind>_file(&info))?
create_file_write ==
    /\ pc = "create_file"
    /\ LET name == Unwrap(First(Unwrap(filename)))
           i == [date |-> Today,
                 author |-> BuildLogname,
                 file |-> FormatPath(name, filetype)]
       IN
       /\ info' = Some(i)
       /\ \/ /\ fs' = Written(fs, i.file, Render(filetype, i))
             /\ ops' = Append(ops, [op |-> "write", path |-> i.file, ok |-> TRUE])
             /\ pc' = IF SetsPermissions(filetype) THEN "metadata"
                      ELSE "create_file_ok"
          \/ /\ fs' \in WriteFailures(fs, i.file)
             /\ ops' = Append(ops, [op |-> "write", path |-> i.file, ok |-> FALSE])
             /\ pc' = "create_file_err"
    /\ UNCHANGED <<args, env, filename, filetype, fs0, out, err, exit>>

\* let mut perms = fs::metadata(&info.file)?.permissions();
create_file_metadata ==
    /\ pc = "metadata"
    /\ \E ok \in BOOLEAN :
        /\ ops' = Append(ops, [op |-> "metadata", path |-> Unwrap(info).file,
                               ok |-> ok])
        /\ pc' = IF ok THEN "set_permissions" ELSE "create_file_err"
    /\ UNCHANGED <<args, env, filename, filetype, info, fs, fs0, out, err, exit>>

\* perms.set_mode(0o744); fs::set_permissions(&info.file, perms)?;
create_file_set_permissions ==
    /\ pc = "set_permissions"
    /\ \E ok \in BOOLEAN :
        /\ ops' = Append(ops, [op |-> "set_permissions",
                               path |-> Unwrap(info).file, ok |-> ok])
        /\ fs' = IF ok THEN Chmod(fs, Unwrap(info).file, ExecMode) ELSE fs
        /\ pc' = IF ok THEN "create_file_ok" ELSE "create_file_err"
    /\ UNCHANGED <<args, env, filename, filetype, info, fs0, out, err, exit>>

\* main_create_err without the process::exit(1): main falls through to Ok(())
main_create_err_ignored ==
    /\ pc = "create_file_err"
    /\ err' = Append(err, CreateErrMsg(IoError))
    /\ exit' = Some(ExitSuccess)
    /\ pc' = "exited"
    /\ UNCHANGED <<args, env, filename, filetype, info, fs, fs0, ops, out>>

\* main_create_err removing the file create_file left behind
main_create_err_rollback ==
    /\ pc = "create_file_err"
    /\ err' = Append(err, CreateErrMsg(IoError))
    /\ fs' = [p \in DOMAIN fs \ {Unwrap(info).file} |-> fs[p]]
    /\ exit' = Some(ExitFailure)
    /\ pc' = "exited"
    /\ UNCHANGED <<args, env, filename, filetype, info, fs0, ops, out>>

\* if let Err(e) = create_file(..) { eprintln!(..); process::exit(1) }
main_create_err ==
    /\ pc = "create_file_err"
    /\ err' = Append(err, CreateErrMsg(IoError))
    /\ exit' = Some(ExitFailure)
    /\ pc' = "exited"
    /\ UNCHANGED <<args, env, filename, filetype, info, fs, fs0, ops, out>>

\* create_file returned Ok(()); main returns Ok(())
main_ok ==
    /\ pc = "create_file_ok"
    /\ exit' = Some(ExitSuccess)
    /\ pc' = "exited"
    /\ UNCHANGED <<args, env, filename, filetype, info, fs, fs0, ops, out, err>>

Next ==
    \/ show_supported_filetypes
    \/ main_missing_name
    \/ main_split
    \/ main_check_input
    \/ main_match
    \/ create_file_write
    \/ create_file_metadata
    \/ create_file_set_permissions
    \/ main_create_err
    \/ main_ok

Spec == Init /\ [][Next]_vars

-----------------------------------------------------------------------------
(* Vocabulary of the properties, defined on the input name itself and not  *)
(* through the program's split                                             *)

\* the run processes a name: the list flag is off and a name was given
NameGiven == ~args.supported_filetypes /\ IsSome(args.name)
TheName == Unwrap(args.name)

HasDot(s) == \E i \in 1..Len(s) : s[i] = "."
LastDot(s) == CHOOSE i \in 1..Len(s) :
                  s[i] = "." /\ \A j \in (i + 1)..Len(s) : s[j] # "."
AfterLastDot(s)  == SubSeq(s, LastDot(s) + 1, Len(s))
BeforeLastDot(s) == SubSeq(s, 1, LastDot(s) - 1)

\* the eight recognized extensions and the kind paired with each
Pairing ==
    { <<s_c, "C">>, <<s_h, "H">>, <<s_py, "Python">>, <<s_cpp, "CPP">>,
      <<s_hpp, "HPP">>, <<s_bash, "Bash">>, <<s_sv, "SystemVerilogModule">>,
      <<s_svh, "SystemVerilogPackage">> }
Recognized == { pr[1] : pr \in Pairing }
PairedKind(ext) == (CHOOSE pr \in Pairing : pr[1] = ext)[2]

Accepted == NameGiven /\ HasDot(TheName) /\ AfterLastDot(TheName) \in Recognized
Rejected == NameGiven /\ HasDot(TheName) /\ AfterLastDot(TheName) \notin Recognized

OpsOf(kind) == { i \in 1..Len(ops) : ops[i].op = kind }
FailedOps == { i \in 1..Len(ops) : ~ops[i].ok }
Untouched == ops = <<>> /\ fs = fs0

-----------------------------------------------------------------------------
(* C1 *)

\* C1: once the match in main has been passed, a run on a name that has a
\* '.' and whose text after the final '.' is a recognized extension holds in
\* `filetype` the kind paired with that extension and no other, and the run
\* did not end in the match; the earlier segments of the name play no part.
C1_KindResolution ==
    (Accepted /\ pc \notin {"main", "unwrap", "check_input_errs", "match"})
        => /\ filetype = PairedKind(AfterLastDot(TheName))
           /\ (pc = "exited" => Len(ops) >= 1)

\* a three-segment name whose earlier segments are themselves extensions
C1_Witness ==
    /\ NameGiven
    /\ TheName = Join(<<s_c, s_bash, s_svh>>)
    /\ pc = "create_file"
    /\ filetype = "SystemVerilogPackage"

-----------------------------------------------------------------------------
(* C2 *)

\* C2: a run on a name that has a '.' and whose text after the final '.' is
\* not a recognized extension never makes a file-system call and leaves the
\* file system as it was, never gets past the match, and when it has ended
\* its exit status is 1 and its only error line names that extension.
C2_UnsupportedExtension ==
    Rejected =>
        /\ Untouched
        /\ pc \in {"main", "unwrap", "check_input_errs", "match", "exited"}
        /\ filetype = NoKind
        /\ pc = "exited" =>
              /\ exit = Some(ExitFailure)
              /\ err = <<UnsupportedMsg(AfterLastDot(TheName))>>

\* the case variant PY of a recognized extension, rejected
C2_Witness ==
    /\ NameGiven
    /\ TheName = Join(<<s_a, s_PY>>)
    /\ pc = "exited"
    /\ exit = Some(ExitFailure)

-----------------------------------------------------------------------------
(* C3 *)

ValidationEnded(msg) ==
    /\ pc \in {"main", "unwrap", "check_input_errs", "exited"}
    /\ filetype = NoKind
    /\ Untouched
    /\ pc = "exited" => (exit = Some(ExitFailure) /\ err = <<InputErrMsg(msg)>>)

\* C3: with a name given, the empty name ends the run at validation with the
\* missing-filename message and exit status 1; a non-empty name without '.'
\* ends it there with the missing-extension message and exit status 1; a name
\* with a '.' passes validation (no input error line is ever printed and the
\* run goes on to the match).  The two messages differ, and a run that fails
\* validation never resolves a kind.
C3_Validation ==
    /\ MissingFilenameMsg # MissingExtensionMsg
    /\ NameGiven =>
        /\ TheName = <<>> => ValidationEnded(MissingFilenameMsg)
        /\ (TheName # <<>> /\ ~HasDot(TheName)) => ValidationEnded(MissingExtensionMsg)
        /\ HasDot(TheName) =>
              /\ \A i \in 1..Len(err) :
                    err[i] \notin {InputErrMsg(MissingFilenameMsg),
                                   InputErrMsg(MissingExtensionMsg)}
              /\ pc = "exited" => (err # <<>> \/ ops # <<>>)

\* the empty name, ended at validation
C3_Witness ==
    /\ NameGiven
    /\ TheName = <<>>
    /\ pc = "exited"
    /\ err = <<InputErrMsg(MissingFilenameMsg)>>

-----------------------------------------------------------------------------
(* C4 *)

\* C4: in a run on an accepted name, the path of every write is
\* <base>.<extension> with base the name up to its final '.' and extension
\* the one of the resolved kind, which is the name that was supplied.
C4_WrittenPathIsName ==
    Accepted =>
        \A i \in OpsOf("write") :
            /\ ops[i].path = BeforeLastDot(TheName) \o <<".">> \o ExtOf(filetype)
            /\ ops[i].path = TheName

-----------------------------------------------------------------------------
(* C5 *)

\* C5: with the list flag set, whatever the name, the run never makes a
\* file-system call and leaves the file system as it was, never splits the
\* name, validates it or resolves a kind, prints no error, and when it has
\* ended it has printed the list and its exit status is 0.
C5_ListFlag ==
    args.supported_filetypes =>
        /\ Untouched
        /\ pc \in {"main", "exited"}
        /\ filename = None
        /\ filetype = NoKind
        /\ err = <<>>
        /\ pc = "exited" => (exit = Some(ExitSuccess) /\ out = SupportedFiletypesText)

\* the list flag together with a valid name of a supported extension
C5_Witness ==
    /\ args.supported_filetypes
    /\ args.name = Some(Join(<<s_a, s_c>>))
    /\ pc = "exited"
    /\ out = SupportedFiletypesText

-----------------------------------------------------------------------------
(* C6 *)

PermissionsDone ==
    \E i \in OpsOf("set_permissions") : ops[i].ok

WrittenWithoutError ==
    /\ \E i \in OpsOf("write") : ops[i].ok
    /\ FailedOps = {}
    /\ filetype = "Bash" => PermissionsDone

ExitCodes ==
    /\ exit \in {None, Some(ExitSuccess), Some(ExitFailure)}
    /\ (exit # None) <=> (pc = "exited")
    /\ exit = Some(ExitSuccess) <=>
          (pc = "exited" /\ (args.supported_filetypes \/ WrittenWithoutError))
    /\ exit = Some(ExitFailure) =>
          \/ ~IsSome(args.name)
          \/ ~HasDot(TheName)
          \/ AfterLastDot(TheName) \notin Recognized
          \/ FailedOps # {}
    /\ pc = "match" => IsSome(Last(Unwrap(filename)))

\* how far along main a position is
Rank(p) ==
    CASE p = "main"             -> 0
      [] p = "unwrap"           -> 1
      [] p = "check_input_errs" -> 2
      [] p = "match"            -> 3
      [] p = "create_file"      -> 4
      [] p = "metadata"         -> 5
      [] p = "set_permissions"  -> 6
      [] p = "create_file_err"  -> 7
      [] p = "create_file_ok"   -> 7
      [] p = "exited"           -> 8

\* C6: every run ends (a run that has not exited always has a next step, and
\* every step moves it forward along main, which has a last position), and it
\* ends with exit status 0 or 1: 0 exactly when the list flag was given or
\* the file was written without a failed call (for the bash kind, with its
\* mode set); 1 only on a missing name, a failed validation, an unsupported
\* extension or a failed file-system call.  The match never finds the list
\* of segments empty, so the run never panics.
C6_ExitCodes ==
    /\ []ExitCodes
    /\ [](pc # "exited" => ENABLED Next)
    /\ [][Rank(pc') > Rank(pc)]_vars

\* a run ended with status 1 by a failed set_permissions
C6_Witness ==
    /\ pc = "exited"
    /\ exit = Some(ExitFailure)
    /\ \E i \in OpsOf("set_permissions") : ~ops[i].ok

-----------------------------------------------------------------------------
(* C7 *)

IsBashRun == Accepted /\ AfterLastDot(TheName) = s_bash

\* C7: a run on a name with extension bash that ended with status 0 left the
\* written file with mode 744; a permission change is always preceded by the
\* successful write of the same path; and a run on a name with any other
\* extension makes no metadata or set_permissions call, so that the file it
\* wrote has the mode it had before the run, or the mode of a new file.
C7_PermissionsBashOnly ==
    /\ (IsBashRun /\ exit = Some(ExitSuccess)) =>
          /\ Exists(fs, Unwrap(info).file)
          /\ fs[Unwrap(info).file].mode = ExecMode
    /\ \A i \in OpsOf("set_permissions") \cup OpsOf("metadata") :
          \E j \in 1..(i - 1) :
              /\ ops[j].op = "write"
              /\ ops[j].ok
              /\ ops[j].path = ops[i].path
    /\ (NameGiven /\ ~IsBashRun) =>
          /\ OpsOf("set_permissions") = {}
          /\ OpsOf("metadata") = {}
          /\ \A i \in OpsOf("write") :
                ops[i].ok =>
                    fs[ops[i].path].mode =
                        IF Exists(fs0, ops[i].path) THEN fs0[ops[i].path].mode
                        ELSE CreateMode

\* a bash run over an existing file of mode 600, ended with status 0
C7_Witness ==
    /\ IsBashRun
    /\ exit = Some(ExitSuccess)
    /\ Exists(fs0, Unwrap(info).file)
    /\ fs0[Unwrap(info).file].mode = 600
    /\ fs[Unwrap(info).file].mode = ExecMode

-----------------------------------------------------------------------------
(* C8 *)

\* C8: the write is attempted at most once and no call is made after a
\* failed one; a failed write is the run's only call and the run then ends
\* with status 1; when metadata or set_permissions failed after the write
\* succeeded, the run ends with status 1 and the written file is still on
\* disk with the whole rendered text.
C8_NoRollbackNoRetry ==
    /\ Cardinality(OpsOf("write")) <= 1
    /\ \A i \in FailedOps : i = Len(ops)
    /\ \A i \in OpsOf("write") :
          ~ops[i].ok =>
              /\ Len(ops) = 1
              /\ pc \in {"create_file_err", "exited"}
              /\ pc = "exited" => exit = Some(ExitFailure)
    /\ \A i \in (OpsOf("metadata") \cup OpsOf("set_permissions")) :
          ~ops[i].ok =>
              /\ pc \in {"create_file_err", "exited"}
              /\ pc = "exited" => exit = Some(ExitFailure)
              /\ Exists(fs, ops[i].path)
              /\ fs[ops[i].path].content # <<>>
              /\ fs[ops[i].path].content = Render("Bash", Unwrap(info))

\* a run ended by a failed set_permissions, the file still there
C8_Witness ==
    /\ pc = "exited"
    /\ Len(ops) = 3
    /\ ops[3].op = "set_permissions"
    /\ ~ops[3].ok
    /\ Exists(fs, ops[3].path)

-----------------------------------------------------------------------------
(* C9 *)

\* C9: a run started with LOGNAME unset never makes a file-system call,
\* leaves the file system as it was and does not end with status 0 after
\* processing a name.
C9_LognameAtLaunch ==
    env.LOGNAME = Unset =>
        /\ Untouched
        /\ NameGiven => exit # Some(ExitSuccess)

-----------------------------------------------------------------------------
(* C10 *)

\* the base name of a written path: the path without its final ".h"
BaseOf(path) == BeforeLastDot(path)

\* C10: in the text written for the H kind to <base>.h, where base is the
\* name create_file was given, the #ifndef line and the #define line carry
\* the same token, which is the base character by character, each
\* upper-cased and none dropped or replaced, followed by _H.
C10_HeaderGuard ==
    \A i \in OpsOf("write") :
        (filetype = "H" /\ ops[i].ok) =>
            LET text == fs[ops[i].path].content
                base == BaseOf(ops[i].path)
                given == Unwrap(First(Unwrap(filename)))
            IN /\ ops[i].path = base \o <<".", "h">>
               /\ base = given
               /\ text[8][1] = "#ifndef "
               /\ text[9][1] = "#define "
               /\ text[8][2] = text[9][2]
               /\ Len(text[8][2]) = Len(base) + 2
               /\ \A k \in 1..Len(base) : text[8][2][k] = UpperChar(base[k])
               /\ SubSeq(text[8][2], Len(base) + 1, Len(base) + 2) = <<"_", "H">>

\* bash.h written, with guard BASH_H
C10_Witness ==
    /\ filetype = "H"
    /\ pc = "exited"
    /\ exit = Some(ExitSuccess)
    /\ Exists(fs, Join(<<s_bash, s_h>>))
    /\ fs[Join(<<s_bash, s_h>>)].content[8] =
          <<"#ifndef ", <<"B", "A", "S", "H", "_", "H">> >>

====
